---- MODULE Spec2Model ----
(***************************************************************************)
(* Unweighted UniFrac: the per-pair pipeline of src/src/compute.rs, the    *)
(* distance-matrix driver of src/src/main.rs (which carries its own copy   *)
(* of the pipeline, without the compress call) and the three reductions    *)
(* the bench of src/benches/unifrac_computation.rs compares.               *)
(*                                                                         *)
(* Numbers.  Every f64 the pipeline handles here is a non-negative whole   *)
(* number below 2^56, kept as <<hi, lo>> with value hi * 2^26 + lo.  F64Add*)
(* is IEEE-754 binary64 addition on that domain: the exact sum rounded to  *)
(* 53 significant bits, ties to even.  Products only ever multiply by 0.0  *)
(* or 1.0 and are exact.                                                   *)
(*                                                                         *)
(* Trees.  phylotree::tree::Tree is an arena: nodes live in a Vec and are  *)
(* named by their index; prune and compress mark nodes deleted and never   *)
(* move the others; size, n_leaves and get_leaves skip deleted nodes.      *)
(* Input trees are those a Newick file yields with every internal node     *)
(* having at least two children and tips carrying unique names.            *)
(*                                                                         *)
(* Tables.  A table file is a sequence of lines, a line the sequence of    *)
(* its tab-separated fields (what split('\t') yields: at least one field,  *)
(* possibly empty), a field a text without blanks.  The table is read by   *)
(* read_sample_table and is independent of the tree: its rows may name     *)
(* taxa the tree does not have, repeat or omit tips, come in any order,    *)
(* and carry fewer values than the header has samples.                     *)
(***************************************************************************)
EXTENDS Integers, Sequences, FiniteSets, TLC

VARIABLES
    tree,        \* the input tree (read-only, cloned per pair)
    table_file,  \* the lines of the table file
    taxa_order,  \* read_sample_table: taxa_order, one name per data line
    sample_names,\* read_sample_table: sample_names
    pm,          \* presence_matrix: one row per data line, pm[t + 1][s + 1] in {0,1}
    n_samples,   \* main: sample_names.len()
    pc,          \* position of the running program
    present,     \* compute_unifrac_for_pair: the set built from present_taxa
    sub_tree,    \* compute_unifrac_for_pair: the pruned clone
    todo,        \* compute_unifrac_for_pair: leaves of the snapshot still to visit
    leaf_order,  \* compute_unifrac_for_pair: leaf_order (indexed by node id)
    leaf_names,  \* compute_unifrac_for_pair: leaf_names (indexed by ordinal)
    mat_b,       \* construct_b: B, mat_b[id][ordinal]
    brlens,      \* construct_b: brlens, brlens[id]
    p_a,         \* get_sample_vec for sample i
    p_b,         \* get_sample_vec for sample j
    sum_shared,  \* parallel_elementwise_sum(p_a, p_b, brlens)
    l_total,     \* brlens.sum()
    mi,          \* main: loop index i
    mj,          \* main: loop index j
    dist_matrix, \* main: dist_matrix, row-major, index i*n+j+1
    calls,       \* main: sequence of <<i, j, outcome>> for every pair computed
    written,     \* main: <<matrix>> once write_matrix was called, <<>> before
    seq_sum,     \* bench: vectorized_elementwise_sum result
    par_sum      \* bench: parallel_elementwise_sum result

vars == <<tree, table_file, taxa_order, sample_names, pm, n_samples, pc,
          present, sub_tree, todo, leaf_order, leaf_names, mat_b, brlens, p_a,
          p_b, sum_shared, l_total, mi, mj, dist_matrix, calls, written,
          seq_sum, par_sum>>

----------------------------------------------------------------------------
(* Bounds of the model. *)

\* largest number of nodes of an input tree with lengths from LenSet
MaxNodes == 4
\* largest number of nodes of an input tree with lengths 0 and 1
MaxTopoNodes == 5
\* largest number of nodes of an input tree of the matrix driver
MaxMainNodes == 3
\* largest number of samples of the matrix driver
MaxSamples == 3
\* largest number of data lines of a table whose lines are chosen freely
MaxRows == 2
\* largest length of the vectors handed to the reductions
MaxVec == 4

----------------------------------------------------------------------------
(* f64 on whole numbers below 2^56. *)

Base == 2^26

Zero == <<0, 0>>
One == <<0, 1>>
\* 2^53, the first f64 whose successor is 2 away
Big == <<2^27, 0>>

\* the branch lengths and vector entries the inputs draw from
LenSet == {Zero, One, Big}

Norm(x) == <<x[1] + (x[2] \div Base), x[2] % Base>>

Ulp(hi) ==
    IF hi < 2^27 THEN 1
    ELSE IF hi < 2^28 THEN 2
    ELSE IF hi < 2^29 THEN 4
    ELSE 8

\* round a normalised exact value to 53 significant bits, ties to even
RoundF64(x) ==
    LET u == Ulp(x[1])
        r == x[2] % u
        odd == ((x[2] \div u) % 2) = 1
        up == (2 * r > u) \/ (2 * r = u /\ odd)
    IN  Norm(<<x[1], (x[2] - r) + (IF up THEN u ELSE 0)>>)

F64Add(x, y) == RoundF64(Norm(<<x[1] + y[1], x[2] + y[2]>>))

F64Less(x, y) == x[1] < y[1] \/ (x[1] = y[1] /\ x[2] < y[2])

F64Leq(x, y) == x = y \/ F64Less(x, y)

\* pa * pb * b for pa, pb in {0.0, 1.0}
Mul3(pa, pb, b) == IF pa = 1 /\ pb = 1 THEN b ELSE Zero

----------------------------------------------------------------------------
(* Sequence helpers. *)

RECURSIVE SortedSeq(_)
SortedSeq(S) ==
    IF S = {} THEN <<>>
    ELSE LET m == CHOOSE x \in S : \A y \in S : x <= y
         IN  <<m>> \o SortedSeq(S \ {m})

Range(s) == {s[k] : k \in 1..Len(s)}

Remove(s, x) == SelectSeq(s, LAMBDA y : y # x)

----------------------------------------------------------------------------
(* phylotree::tree::Tree, as the pipeline uses it.  A tree is a record     *)
(*   n        nodes.len(): ids are 0..n-1                                  *)
(*   parent   parent[id], NoParent for the root                            *)
(*   children children[id], a sequence of ids                              *)
(*   edge     parent_edge[id], NoEdge for None                             *)
(*   name     name[id], Some(text) or NoName for None                      *)
(*   deleted  deleted[id]                                                  *)

NoParent == 0 - 1
NoEdge == <<0 - 1, 0>>
NoName == <<>>
Some(s) == <<s>>

Ids(t) == 0..(t.n - 1)

Live(t) == {x \in Ids(t) : ~t.deleted[x]}

\* Node::is_tip
is_tip(t, x) == t.children[x] = <<>>

\* Tree::size: the nodes not deleted
size(t) == Cardinality(Live(t))

\* Tree::get_leaves: ids of the live tips, in arena order
get_leaves(t) == SortedSeq({x \in Live(t) : is_tip(t, x)})

\* Tree::n_leaves
n_leaves(t) == Len(get_leaves(t))

\* Tree::get_root: the first node without a parent
get_root(t) == CHOOSE x \in Ids(t) :
    /\ t.parent[x] = NoParent
    /\ \A y \in Ids(t) : t.parent[y] = NoParent => x <= y

\* Tree::prune of a tip l: unlink it from its parent and mark it deleted
prune(t, l) ==
    LET p == t.parent[l]
    IN  [t EXCEPT
            !.children = IF p = NoParent THEN @
                         ELSE [@ EXCEPT ![p] = Remove(@, l)],
            !.deleted = [@ EXCEPT ![l] = TRUE]]

\* the edge of a node fused with its only child
FuseEdge(pe, ce) ==
    IF pe # NoEdge /\ ce # NoEdge THEN F64Add(pe, ce)
    ELSE IF pe # NoEdge THEN pe
    ELSE ce

\* Tree::compress, one node x with exactly one parent and one child:
\* the child is re-attached to x's parent (appended to its children),
\* the two edges are fused, x is unlinked and marked deleted
CompressNode(t, x) ==
    LET p == t.parent[x]
        c == t.children[x][1]
        e == FuseEdge(t.edge[x], t.edge[c])
    IN  [t EXCEPT
            !.parent = [@ EXCEPT ![c] = p],
            !.edge = [@ EXCEPT ![c] = e],
            !.children = [@ EXCEPT ![p] = Remove(Append(@, c), x)],
            !.deleted = [@ EXCEPT ![x] = TRUE]]

RECURSIVE CompressAll(_, _)
CompressAll(t, xs) ==
    IF xs = <<>> THEN t
    ELSE CompressAll(CompressNode(t, Head(xs)), Tail(xs))

\* Tree::compress: every live node with a parent and exactly one child
compress(t) ==
    CompressAll(t, SortedSeq({x \in Live(t) :
        t.parent[x] # NoParent /\ Len(t.children[x]) = 1}))

\* Tree::postorder from node r: children first, in children order
RECURSIVE postorder(_, _)
RECURSIVE PostorderAll(_, _)
postorder(t, r) == Append(PostorderAll(t, t.children[r]), r)

PostorderAll(t, cs) ==
    IF cs = <<>> THEN <<>>
    ELSE postorder(t, Head(cs)) \o PostorderAll(t, Tail(cs))

\* x is y or an ancestor of y
RECURSIVE IsAncestorOrSelf(_, _, _)
IsAncestorOrSelf(t, x, y) ==
    IF x = y THEN TRUE
    ELSE IF t.parent[y] = NoParent THEN FALSE
    ELSE IsAncestorOrSelf(t, x, t.parent[y])

----------------------------------------------------------------------------
(* Input trees. *)

\* parent vectors over ids 0..n-1: the root is 0, a node is created after
\* its parent, and every node has no child or at least two
Shapes(n) ==
    {f \in [1..(n - 1) -> 0..(n - 2)] :
        /\ \A x \in 1..(n - 1) : f[x] < x
        /\ \A x \in 0..(n - 1) :
              Cardinality({c \in 1..(n - 1) : f[c] = x}) # 1}

\* the names of the tips of the input trees, by rank
TipNames == <<"T1", "T2", "T3", "T4", "T5", "T6", "T7">>

\* the tree of a parent vector f and edge lengths e; the k-th tip (in id
\* order) is named TipNames[k]
MkTree(n, f, e) ==
    LET kids(x) == {c \in 1..(n - 1) : f[c] = x}
        tips == {x \in 0..(n - 1) : kids(x) = {}}
        rank(x) == Cardinality({y \in tips : y <= x})
    IN  [n |-> n,
         parent |-> [x \in 0..(n - 1) |-> IF x = 0 THEN NoParent ELSE f[x]],
         children |-> [x \in 0..(n - 1) |-> SortedSeq(kids(x))],
         edge |-> [x \in 0..(n - 1) |-> IF x = 0 THEN NoEdge ELSE e[x]],
         name |-> [x \in 0..(n - 1) |->
                     IF x \in tips THEN Some(TipNames[rank(x)]) ELSE NoName],
         deleted |-> [x \in 0..(n - 1) |-> FALSE]]

\* the trees of 3 to maxn nodes with branch lengths from L
Trees(maxn, L) ==
    UNION {{MkTree(n, f, e) : f \in Shapes(n), e \in [1..(n - 1) -> L]}
           : n \in 3..maxn}

----------------------------------------------------------------------------
(* io.rs and main.rs: the sample table. *)

\* the texts the value fields of the input tables hold
CellTexts == {"0", "2"}

\* taxon names of the input tables that no input tree has
OffTree == {"X1", "Y1"}

\* the sample names of the header line, by column
SampleIds == <<"A", "B", "C", "D", "E">>

\* str::parse::<f64> on the field texts of the model: <<TRUE, v>> with v twice
\* the value for the numerals listed, <<FALSE, 0>> for any other text of the
\* model (a taxon name, "x", the empty text)
parse(x) ==
    CASE x = "0" -> <<TRUE, 0>>
      [] x = "0.5" -> <<TRUE, 1>>
      [] x = "1" -> <<TRUE, 2>>
      [] x = "2" -> <<TRUE, 4>>
      [] x = "-1" -> <<TRUE, 0 - 2>>
      [] OTHER -> <<FALSE, 0>>

\* io.rs 35-42: parse().unwrap_or(0.0), then 1.0 if positive and 0.0 otherwise
Binarise(x) ==
    LET r == parse(x)
        val == IF r[1] THEN r[2] ELSE 0
    IN  IF val > 0 THEN 1 ELSE 0

\* io.rs 29-45: the loop over the data lines; a line is what split('\t')
\* yields, so its first field always exists
RECURSIVE ReadLines(_, _)
ReadLines(lines, acc) ==
    IF lines = <<>> THEN acc
    ELSE LET parts == Head(lines)
             values == [k \in 1..(Len(parts) - 1) |-> Binarise(parts[k + 1])]
         IN  ReadLines(Tail(lines),
                [acc EXCEPT !.taxa_order = Append(@, parts[1]),
                            !.presence_matrix = Append(@, values)])

\* io.rs 16-48: the result for a file given as its lines; ok is FALSE for the
\* Err of a file without a header line
read_sample_table(file) ==
    IF file = <<>>
    THEN [ok |-> FALSE, taxa_order |-> <<>>, sample_names |-> <<>>,
          presence_matrix |-> <<>>]
    ELSE ReadLines(Tail(file),
            [ok |-> TRUE, taxa_order |-> <<>>, sample_names |-> Tail(Head(file)),
             presence_matrix |-> <<>>])

\* split_whitespace on a line of tab-separated fields without blanks: the
\* fields that are not empty
split_whitespace(line) == SelectSeq(line, LAMBDA x : x # "")

\* main.rs 87-97: the loop over the data lines in the binary's copy; a line
\* without any field ends the loop with the Err "Taxon missing in a line"
RECURSIVE MainReadLines(_, _)
MainReadLines(lines, acc) ==
    IF lines = <<>> THEN acc
    ELSE LET parts == split_whitespace(Head(lines))
             values == [k \in 1..(Len(parts) - 1) |-> Binarise(parts[k + 1])]
         IN  IF parts = <<>> THEN [acc EXCEPT !.ok = FALSE]
             ELSE MainReadLines(Tail(lines),
                    [acc EXCEPT !.taxa_order = Append(@, parts[1]),
                                !.presence_matrix = Append(@, values)])

\* main.rs 74-100: read_sample_table of the binary
main_read_sample_table(file) ==
    IF file = <<>>
    THEN [ok |-> FALSE, taxa_order |-> <<>>, sample_names |-> <<>>,
          presence_matrix |-> <<>>]
    ELSE LET hdr == split_whitespace(Head(file))
         IN  MainReadLines(Tail(file),
                [ok |-> TRUE, taxa_order |-> <<>>,
                 sample_names |-> IF hdr = <<>> THEN <<>> ELSE Tail(hdr),
                 presence_matrix |-> <<>>])

(* Input tables. *)

\* the header line of a table of ns samples
Header(ns) == <<"ID">> \o [k \in 1..ns |-> SampleIds[k]]

\* the value fields of a line carrying len values
Cells(len) == [1..len -> CellTexts]

\* the names of the tips of tree t
TipNameSet(t) == {t.name[x][1] : x \in {x \in Ids(t) : is_tip(t, x)}}

\* the sequences of n lines from the set R
RECURSIVE LineSeqs(_, _)
LineSeqs(R, n) ==
    IF n = 0 THEN {<<>>}
    ELSE {Append(s, r) : s \in LineSeqs(R, n - 1), r \in R}

\* tables listing exactly the tips, in id order, ns values each
TipLines(t, ns) ==
    LET tips == get_leaves(t)
    IN  {[k \in 1..Len(tips) |-> <<t.name[tips[k]][1]>> \o c[k]] :
            c \in [1..Len(tips) -> Cells(ns)]}

\* a data line: any tip or off-tree name, and ns values or one less
FreeLine(t, ns) ==
    {<<nm>> \o c : nm \in TipNameSet(t) \cup OffTree,
                   c \in Cells(ns) \cup (IF ns > 0 THEN Cells(ns - 1) ELSE {})}

\* up to MaxRows data lines chosen freely: taxa in any order, repeated,
\* missing or unknown to the tree, lines shorter than the header
FreeLines(t, ns) == UNION {LineSeqs(FreeLine(t, ns), r) : r \in 0..MaxRows}

\* the table files handed to the pair pipeline, two samples
PairFiles(t) ==
    {<<Header(2)>> \o rows : rows \in TipLines(t, 2) \cup FreeLines(t, 2)}

\* the table files handed to the binary: no line at all, or a header of up
\* to MaxSamples samples and free data lines, a blank line among them
MainFiles(t) ==
    {<<>>} \cup
    UNION {{<<Header(ns)>> \o rows :
                rows \in UNION {LineSeqs(FreeLine(t, ns) \cup {<<"">>}, r)
                                : r \in 0..MaxRows}}
           : ns \in 0..MaxSamples}

----------------------------------------------------------------------------
(* compute.rs: the pair pipeline. *)

\* presence_matrix[t_idx][s] is in bounds (t_idx from 1 here, s from 0)
InTable(pmx, t_idx, s) == t_idx <= Len(pmx) /\ s + 1 <= Len(pmx[t_idx])

\* compute.rs 15-22: the taxa with a positive value in column i or column j;
\* ok is FALSE when a row is missing or too short for column i or j (panic)
present_taxa(to, pmx, i, j) ==
    IF \E k \in 1..Len(to) : ~InTable(pmx, k, i) \/ ~InTable(pmx, k, j)
    THEN [ok |-> FALSE, set |-> {}]
    ELSE [ok |-> TRUE,
          set |-> {to[k] : k \in {k \in 1..Len(to) :
                      pmx[k][i + 1] > 0 \/ pmx[k][j + 1] > 0}}]

\* compute.rs 30-34: one iteration of the pruning loop, at a named leaf l
\* (name.unwrap() of line 30 panics at a leaf without a name)
PruneVisit(t, l, set) ==
    IF t.name[l][1] \notin set THEN compress(prune(t, l)) ELSE t

\* main.rs 120-123: the same iteration in the binary's copy, without compress
PruneVisitMain(t, l, set) ==
    IF t.name[l][1] \notin set THEN prune(t, l) ELSE t

\* compute.rs 38-44: leaf_order = vec![0; size], then one write per leaf.
\* ok is FALSE when leaf_order[l_idx] is out of bounds or a leaf has no name
LeafOrder(t) ==
    LET leaves == get_leaves(t)
        n == size(t)
    IN  IF \E k \in 1..Len(leaves) : leaves[k] >= n \/ t.name[leaves[k]] = NoName
        THEN [ok |-> FALSE, leaf_order |-> <<>>, leaf_names |-> <<>>]
        ELSE [ok |-> TRUE,
              leaf_order |-> [x \in 0..(n - 1) |->
                  IF \E k \in 1..Len(leaves) : leaves[k] = x
                  THEN (CHOOSE k \in 1..Len(leaves) : leaves[k] = x) - 1
                  ELSE 0],
              leaf_names |-> [o \in 0..(Len(leaves) - 1) |-> t.name[leaves[o + 1]][1]]]

\* the row merge stopping after the first child
MergeRowsFirstChild(B, idx, cs) ==
    IF cs = <<>> THEN B
    ELSE [B EXCEPT ![idx] = [o \in DOMAIN B[idx] |-> B[idx][o] + B[Head(cs)][o]]]

\* compute.rs 73-76: row idx += row c, for every child c in order
RECURSIVE MergeRows(_, _, _)
MergeRows(B, idx, cs) ==
    IF cs = <<>> THEN B
    ELSE MergeRows(
            [B EXCEPT ![idx] = [o \in DOMAIN B[idx] |-> B[idx][o] + B[Head(cs)][o]]],
            idx, Tail(cs))

\* compute.rs 66-78: the body of the postorder loop, over the ids still to visit.
\* st is [ok, mat_b, brlens]; an id outside the arrays ends the loop with ok FALSE
RECURSIVE ConstructLoop(_, _, _, _)
ConstructLoop(t, lo, ids, st) ==
    IF ids = <<>> \/ ~st.ok THEN st
    ELSE LET idx == Head(ids)
             inb == idx \in DOMAIN st.brlens
             e == IF t.edge[idx] = NoEdge THEN Zero ELSE t.edge[idx]
         IN  IF ~inb \/ (is_tip(t, idx) /\ lo[idx] \notin DOMAIN st.mat_b[idx])
             THEN [st EXCEPT !.ok = FALSE]
             ELSE ConstructLoop(t, lo, Tail(ids),
                    [ok |-> TRUE,
                     brlens |-> [st.brlens EXCEPT ![idx] = e],
                     mat_b |-> IF is_tip(t, idx)
                               THEN [st.mat_b EXCEPT ![idx][lo[idx]] = 1]
                               ELSE MergeRows(st.mat_b, idx, t.children[idx])])

\* compute.rs 59-81
construct_b(t, lo) ==
    LET n_tips == n_leaves(t)
        n_branches == size(t)
        root == get_root(t)
    IN  ConstructLoop(t, lo, postorder(t, root),
            [ok |-> TRUE,
             mat_b |-> [x \in 0..(n_branches - 1) |-> [o \in 0..(n_tips - 1) |-> 0]],
             brlens |-> [x \in 0..(n_branches - 1) |-> Zero]])

\* compute.rs 95-102: the loop over the leaf columns from col on, st the
\* accumulator so far; ok turns FALSE when a leaf name is not in taxa_order
\* (unwrap of None) or its row is too short for column s (index panic)
RECURSIVE SampleLoop(_, _, _, _, _, _, _)
SampleLoop(mat, pmx, to, names, s, col, st) ==
    IF col \notin DOMAIN names \/ ~st.ok THEN st
    ELSE LET found == {k \in 1..Len(to) : to[k] = names[col]}
             t_idx == CHOOSE k \in found : \A m \in found : k <= m
         IN  IF found = {} THEN [st EXCEPT !.ok = FALSE]
             ELSE IF ~InTable(pmx, t_idx, s) THEN [st EXCEPT !.ok = FALSE]
             ELSE SampleLoop(mat, pmx, to, names, s, col + 1,
                    [ok |-> TRUE,
                     p |-> IF pmx[t_idx][s + 1] > 0
                           THEN [x \in DOMAIN mat |-> st.p[x] + mat[x][col]]
                           ELSE st.p])

\* compute.rs 84-106: accumulate the columns of the present leaves, clamp to 0/1
get_sample_vec(mat, pmx, to, names, s) ==
    LET r == SampleLoop(mat, pmx, to, names, s, 0,
                        [ok |-> TRUE, p |-> [x \in DOMAIN mat |-> 0]])
    IN  [ok |-> r.ok,
         p |-> [x \in DOMAIN mat |-> IF r.p[x] > 0 THEN 1 ELSE 0]]

\* an array indexed 0..n-1 as a sequence
AsSeq(f) == [k \in 1..Cardinality(DOMAIN f) |-> f[k - 1]]

\* the products pa * pb * b of three arrays of one length, as a sequence
Products(pa, pb, b) == [k \in 1..Len(pa) |-> Mul3(pa[k], pb[k], b[k])]

\* the left fold acc + d[1] + d[2] + ...
RECURSIVE FoldAdd(_, _)
FoldAdd(acc, d) ==
    IF d = <<>> THEN acc ELSE FoldAdd(F64Add(acc, Head(d)), Tail(d))

\* ndarray's sum of a contiguous array: eight lanes over the whole blocks of
\* eight, the lanes added pairwise, then the remaining elements one by one
NdSum(d) ==
    LET nb == Len(d) \div 8
        lane(k) == FoldAdd(Zero, [c \in 1..nb |-> d[8 * (c - 1) + k]])
        a1 == F64Add(Zero, F64Add(lane(1), lane(5)))
        a2 == F64Add(a1, F64Add(lane(2), lane(6)))
        a3 == F64Add(a2, F64Add(lane(3), lane(7)))
        a4 == F64Add(a3, F64Add(lane(4), lane(8)))
    IN  FoldAdd(a4, SubSeq(d, 8 * nb + 1, Len(d)))

\* the values a rayon sum of d can return below the first split: a range is
\* either folded in order or split at its middle, the halves added
RECURSIVE ParRange(_)
ParRange(d) ==
    {FoldAdd(Zero, d)} \cup
    (IF Len(d) < 2 THEN {}
     ELSE LET mid == Len(d) \div 2
          IN  {F64Add(x, y) : x \in ParRange(SubSeq(d, 1, mid)),
                              y \in ParRange(SubSeq(d, mid + 1, Len(d)))})

\* rayon's par_iter().sum(): the splitter starts with one split per thread,
\* so a range of two or more is always split at its middle once
ParSum(d) ==
    IF Len(d) < 2 THEN {FoldAdd(Zero, d)}
    ELSE LET mid == Len(d) \div 2
         IN  {F64Add(x, y) : x \in ParRange(SubSeq(d, 1, mid)),
                             y \in ParRange(SubSeq(d, mid + 1, Len(d)))}

\* the parallel sum losing the last element of the zip
parallel_sum_short(pa, pb, b) ==
    LET d == Products(pa, pb, b)
    IN  ParSum(SubSeq(d, 1, Len(d) - 1))

\* compute.rs 109-118: the values the call can return
parallel_elementwise_sum(pa, pb, b) == ParSum(Products(pa, pb, b))

\* compute.rs 133-139
vectorized_elementwise_sum(pa, pb, b) == NdSum(Products(pa, pb, b))

----------------------------------------------------------------------------
(* The pair pipeline of compute.rs as a program: one call of               *)
(* compute_unifrac_for_pair(tree, taxa_order, presence_matrix, 0, 1).      *)
(* A panic ends the call at pc = "panic".                                  *)

Idle == <<>>

\* the call compute_unifrac_for_pair(tree, taxa_order, presence_matrix, 0, 1)
\* on a tree of T and a table read by read_sample_table
PairStart(T) ==
    /\ tree \in T
    /\ \E f \in PairFiles(tree) :
          LET r == read_sample_table(f)
          IN  /\ table_file = f
              /\ taxa_order = r.taxa_order
              /\ sample_names = r.sample_names
              /\ pm = r.presence_matrix
    /\ n_samples = 2
    /\ mi = 0
    /\ mj = 1
    /\ pc = "present"
    /\ present = {}
    /\ sub_tree = Idle
    /\ todo = Idle
    /\ leaf_order = Idle
    /\ leaf_names = Idle
    /\ mat_b = Idle
    /\ brlens = Idle
    /\ p_a = Idle
    /\ p_b = Idle
    /\ sum_shared = Idle
    /\ l_total = Idle
    /\ dist_matrix = Idle
    /\ calls = Idle
    /\ written = Idle
    /\ seq_sum = Idle
    /\ par_sum = Idle

PairInputs == <<tree, table_file, taxa_order, sample_names, pm, n_samples, mi, mj,
                dist_matrix, calls, written, seq_sum, par_sum>>

\* compute.rs 15-28: present_taxa, the clone, the snapshot of its leaves and
\* the set; an index out of the table's bounds panics
PresentTaxa ==
    /\ pc = "present"
    /\ LET r == present_taxa(taxa_order, pm, mi, mj)
       IN  IF r.ok
           THEN /\ present' = r.set
                /\ sub_tree' = tree
                /\ todo' = get_leaves(tree)
                /\ pc' = "prune"
           ELSE /\ pc' = "panic"
                /\ UNCHANGED <<present, sub_tree, todo>>
    /\ UNCHANGED <<leaf_order, leaf_names, mat_b, brlens, p_a, p_b, sum_shared,
                   l_total>>
    /\ UNCHANGED PairInputs

\* compute.rs 29-35: the next leaf of the snapshot taken at line 27
PruneLeaf ==
    /\ pc = "prune"
    /\ todo # <<>>
    /\ IF sub_tree.name[Head(todo)] = NoName
       THEN /\ pc' = "panic"
            /\ UNCHANGED <<sub_tree, todo>>
       ELSE /\ sub_tree' = PruneVisit(sub_tree, Head(todo), present)
            /\ todo' = Tail(todo)
            /\ UNCHANGED pc
    /\ UNCHANGED <<present, leaf_order, leaf_names, mat_b, brlens, p_a, p_b,
                   sum_shared, l_total>>
    /\ UNCHANGED PairInputs

\* compute.rs 38-44: a panic (index out of bounds, unwrap of None) ends the call
AssignLeafOrder ==
    /\ pc = "prune"
    /\ todo = <<>>
    /\ LET r == LeafOrder(sub_tree)
       IN  /\ pc' = IF r.ok THEN "build" ELSE "panic"
           /\ leaf_order' = r.leaf_order
           /\ leaf_names' = r.leaf_names
    /\ UNCHANGED <<present, sub_tree, todo, mat_b, brlens, p_a, p_b, sum_shared,
                   l_total>>
    /\ UNCHANGED PairInputs

\* compute.rs 46
ConstructB ==
    /\ pc = "build"
    /\ LET r == construct_b(sub_tree, leaf_order)
       IN  /\ pc' = IF r.ok THEN "vecs" ELSE "panic"
           /\ mat_b' = r.mat_b
           /\ brlens' = r.brlens
    /\ UNCHANGED <<present, sub_tree, todo, leaf_order, leaf_names, p_a, p_b,
                   sum_shared, l_total>>
    /\ UNCHANGED PairInputs

\* compute.rs 48-49
SampleVecs ==
    /\ pc = "vecs"
    /\ LET ra == get_sample_vec(mat_b, pm, taxa_order, leaf_names, mi)
           rb == get_sample_vec(mat_b, pm, taxa_order, leaf_names, mj)
       IN  /\ p_a' = ra.p
           /\ p_b' = rb.p
           /\ pc' = IF ra.ok /\ rb.ok THEN "reduce" ELSE "panic"
    /\ UNCHANGED <<present, sub_tree, todo, leaf_order, leaf_names, mat_b, brlens,
                   sum_shared, l_total>>
    /\ UNCHANGED PairInputs

\* compute.rs 51-55: the call returns Ok(1.0 - sum_shared / l_total)
Reduce ==
    /\ pc = "reduce"
    /\ sum_shared' \in parallel_elementwise_sum(AsSeq(p_a), AsSeq(p_b), AsSeq(brlens))
    /\ l_total' = NdSum(AsSeq(brlens))
    /\ pc' = "done"
    /\ UNCHANGED <<present, sub_tree, todo, leaf_order, leaf_names, mat_b, brlens,
                   p_a, p_b>>
    /\ UNCHANGED PairInputs

\* inputs with branch lengths from LenSet
PairInit == PairStart(Trees(MaxNodes, LenSet))

\* larger inputs, branch lengths 0 and 1
TopoInit == PairStart(Trees(MaxTopoNodes, {Zero, One}))

PairNext == PresentTaxa \/ PruneLeaf \/ AssignLeafOrder \/ ConstructB \/ SampleVecs \/ Reduce

SpecPair == PairInit /\ [][PairNext]_vars

SpecTopo == TopoInit /\ [][PairNext]_vars

----------------------------------------------------------------------------
(* main.rs: the distance-matrix driver.  The binary calls its own copy of  *)
(* the pipeline (main.rs 103-210), which differs from compute.rs only in   *)
(* the pruning loop.                                                       *)

\* main.rs 119-124: the pruning loop over the snapshot of the leaves; ok turns
\* FALSE at a leaf without a name (unwrap of None)
RECURSIVE MainPruneLoop(_, _, _)
MainPruneLoop(t, leaves, set) ==
    IF leaves = <<>> THEN [ok |-> TRUE, tree |-> t]
    ELSE IF t.name[Head(leaves)] = NoName THEN [ok |-> FALSE, tree |-> t]
    ELSE MainPruneLoop(PruneVisitMain(t, Head(leaves), set), Tail(leaves), set)

Panic == [kind |-> "panic", shared |-> Zero, total |-> Zero]

\* the f64 1.0 - shared / total
Ratio(s, t) == [kind |-> "ratio", shared |-> s, total |-> t]

\* the f64 literal 0.0
Lit0 == [kind |-> "zero", shared |-> Zero, total |-> Zero]

\* main.rs 127-144: the pipeline after pruning; the outcomes one call can have
AfterPrune(t, to, pmx, i, j) ==
    LET lo == LeafOrder(t)
        cb == construct_b(t, lo.leaf_order)
        pa == get_sample_vec(cb.mat_b, pmx, to, lo.leaf_names, i)
        pb == get_sample_vec(cb.mat_b, pmx, to, lo.leaf_names, j)
    IN  IF ~lo.ok THEN {Panic}
        ELSE IF ~cb.ok THEN {Panic}
        ELSE IF ~pa.ok \/ ~pb.ok THEN {Panic}
        ELSE {Ratio(s, NdSum(AsSeq(cb.brlens))) :
                s \in parallel_elementwise_sum(AsSeq(pa.p), AsSeq(pb.p),
                                               AsSeq(cb.brlens))}

\* main.rs 103-145: compute_unifrac_for_pair of the binary
main_compute_unifrac_for_pair(t, to, pmx, i, j) ==
    LET pt == present_taxa(to, pmx, i, j)
        pr == MainPruneLoop(t, get_leaves(t), pt.set)
    IN  IF ~pt.ok THEN {Panic}
        ELSE IF ~pr.ok THEN {Panic}
        ELSE AfterPrune(pr.tree, to, pmx, i, j)

\* the index of entry (i, j) of the row-major matrix
At(i, j) == i * n_samples + j + 1

MainInit ==
    /\ tree \in Trees(MaxMainNodes, LenSet)
    /\ table_file \in MainFiles(tree)
    /\ taxa_order = Idle
    /\ sample_names = Idle
    /\ pm = Idle
    /\ n_samples = 0
    /\ mi = 0
    /\ mj = 0
    /\ pc = "read"
    /\ dist_matrix = Idle
    /\ calls = <<>>
    /\ written = Idle
    /\ present = {}
    /\ sub_tree = Idle
    /\ todo = Idle
    /\ leaf_order = Idle
    /\ leaf_names = Idle
    /\ mat_b = Idle
    /\ brlens = Idle
    /\ p_a = Idle
    /\ p_b = Idle
    /\ sum_shared = Idle
    /\ l_total = Idle
    /\ seq_sum = Idle
    /\ par_sum = Idle

\* what main never touches after reading the table
MainFrame == <<tree, table_file, taxa_order, sample_names, pm, n_samples,
               present, sub_tree, todo, leaf_order, leaf_names, mat_b, brlens,
               p_a, p_b, sum_shared, l_total, seq_sum, par_sum>>

\* main.rs 43-48: read the table, count the samples, allocate the matrix; an
\* Err of read_sample_table leaves main at once
ReadTable ==
    /\ pc = "read"
    /\ LET r == main_read_sample_table(table_file)
       IN  IF r.ok
           THEN /\ taxa_order' = r.taxa_order
                /\ sample_names' = r.sample_names
                /\ pm' = r.presence_matrix
                /\ n_samples' = Len(r.sample_names)
                /\ dist_matrix' =
                      [k \in 1..(Len(r.sample_names) * Len(r.sample_names)) |-> Lit0]
                /\ pc' = "outer"
           ELSE /\ pc' = "readerror"
                /\ UNCHANGED <<taxa_order, sample_names, pm, n_samples, dist_matrix>>
    /\ UNCHANGED <<tree, table_file, mi, mj, calls, written, present, sub_tree,
                   todo, leaf_order, leaf_names, mat_b, brlens, p_a, p_b,
                   sum_shared, l_total, seq_sum, par_sum>>

\* main.rs 50-52: enter row i, set the diagonal entry
MainRow ==
    /\ pc = "outer"
    /\ mi < n_samples
    /\ dist_matrix' = [dist_matrix EXCEPT ![At(mi, mi)] = Lit0]
    /\ mj' = mi + 1
    /\ pc' = "inner"
    /\ UNCHANGED <<mi, calls, written>>
    /\ UNCHANGED MainFrame

\* the pair step writing entry (i, j) only
MainPairOneSided ==
    /\ pc = "inner"
    /\ mj < n_samples
    /\ \E uni \in main_compute_unifrac_for_pair(tree, taxa_order, pm, mi, mj) :
          /\ calls' = Append(calls, <<mi, mj, uni>>)
          /\ IF uni.kind = "panic"
             THEN /\ pc' = "failed"
                  /\ UNCHANGED <<dist_matrix, mj>>
             ELSE /\ dist_matrix' = [dist_matrix EXCEPT ![At(mi, mj)] = uni]
                  /\ mj' = mj + 1
                  /\ pc' = "inner"
    /\ UNCHANGED <<mi, written>>
    /\ UNCHANGED MainFrame

\* the pair step going on to the next pair after a failed call
MainPairSwallow ==
    /\ pc = "inner"
    /\ mj < n_samples
    /\ \E uni \in main_compute_unifrac_for_pair(tree, taxa_order, pm, mi, mj) :
          /\ calls' = Append(calls, <<mi, mj, uni>>)
          /\ IF uni.kind = "panic"
             THEN UNCHANGED dist_matrix
             ELSE dist_matrix' = [dist_matrix EXCEPT ![At(mi, mj)] = uni,
                                                     ![At(mj, mi)] = uni]
          /\ mj' = mj + 1
          /\ pc' = "inner"
    /\ UNCHANGED <<mi, written>>
    /\ UNCHANGED MainFrame

\* main.rs 52-56: one pair; a failed call leaves main at once
MainPair ==
    /\ pc = "inner"
    /\ mj < n_samples
    /\ \E uni \in main_compute_unifrac_for_pair(tree, taxa_order, pm, mi, mj) :
          /\ calls' = Append(calls, <<mi, mj, uni>>)
          /\ IF uni.kind = "panic"
             THEN /\ pc' = "failed"
                  /\ UNCHANGED <<dist_matrix, mj>>
             ELSE /\ dist_matrix' = [dist_matrix EXCEPT ![At(mi, mj)] = uni,
                                                        ![At(mj, mi)] = uni]
                  /\ mj' = mj + 1
                  /\ pc' = "inner"
    /\ UNCHANGED <<mi, written>>
    /\ UNCHANGED MainFrame

\* main.rs 52, 57: the inner range is exhausted
MainRowEnd ==
    /\ pc = "inner"
    /\ mj >= n_samples
    /\ mi' = mi + 1
    /\ pc' = "outer"
    /\ UNCHANGED <<mj, dist_matrix, calls, written>>
    /\ UNCHANGED MainFrame

\* main.rs 60 and io.rs 51-75: write_matrix receives the matrix; creating or
\* writing the file can fail
MainWrite ==
    /\ pc = "outer"
    /\ mi >= n_samples
    /\ written' = <<dist_matrix>>
    /\ pc' \in {"exit", "ioerror"}
    /\ UNCHANGED <<mi, mj, dist_matrix, calls>>
    /\ UNCHANGED MainFrame

MainNext == ReadTable \/ MainRow \/ MainPair \/ MainRowEnd \/ MainWrite

SpecMain == MainInit /\ [][MainNext]_vars

----------------------------------------------------------------------------
(* benches/unifrac_computation.rs: the reductions on one set of vectors.   *)

SumInit ==
    /\ \E n \in 0..MaxVec :
          /\ p_a \in [1..n -> {0, 1}]
          /\ p_b \in [1..n -> {0, 1}]
          /\ brlens \in [1..n -> LenSet]
    /\ pc = "bench"
    /\ seq_sum = Idle
    /\ par_sum = Idle
    /\ tree = Idle
    /\ table_file = Idle
    /\ taxa_order = Idle
    /\ sample_names = Idle
    /\ pm = Idle
    /\ n_samples = 0
    /\ present = {}
    /\ sub_tree = Idle
    /\ todo = Idle
    /\ leaf_order = Idle
    /\ leaf_names = Idle
    /\ mat_b = Idle
    /\ sum_shared = Idle
    /\ l_total = Idle
    /\ mi = 0
    /\ mj = 0
    /\ dist_matrix = Idle
    /\ calls = Idle
    /\ written = Idle

SumFrame == <<tree, table_file, taxa_order, sample_names, pm, n_samples, pc,
              present, sub_tree, todo, leaf_order, leaf_names, mat_b, brlens,
              p_a, p_b, sum_shared, l_total, mi, mj, dist_matrix, calls, written>>

\* bench 32-36
BenchParallel ==
    /\ pc = "bench"
    /\ par_sum = Idle
    /\ par_sum' \in parallel_elementwise_sum(p_a, p_b, brlens)
    /\ UNCHANGED seq_sum
    /\ UNCHANGED SumFrame

\* bench 44-48
BenchVectorized ==
    /\ pc = "bench"
    /\ seq_sum = Idle
    /\ seq_sum' = vectorized_elementwise_sum(p_a, p_b, brlens)
    /\ UNCHANGED par_sum
    /\ UNCHANGED SumFrame

SumNext == BenchParallel \/ BenchVectorized

SpecSum == SumInit /\ [][SumNext]_vars

----------------------------------------------------------------------------
(* Properties. *)

Samples == 0..(n_samples - 1)

\* the pairs i < j of the matrix driver
Pairs == {q \in Samples \X Samples : q[1] < q[2]}

\* the calls made for pair (i, j)
CallsFor(i, j) == {k \in 1..Len(calls) : calls[k][1] = i /\ calls[k][2] = j}

\* the loop of main.rs 50-57 has run to its end
LoopDone == (pc = "outer" /\ mi >= n_samples) \/ pc \in {"exit", "ioerror"}

\* C1: when the assembly loop finishes, the matrix is symmetric with a zero
\* diagonal, and every off-diagonal entry (i, j), i < j, holds the value returned
\* by the one call made for that pair.
C1_SymmetricZeroDiagonal ==
    LoopDone =>
        /\ \A i \in Samples : dist_matrix[At(i, i)] = Lit0
        /\ \A i \in Samples : \A j \in Samples :
              dist_matrix[At(i, j)] = dist_matrix[At(j, i)]
        /\ \A q \in Pairs :
              /\ Cardinality(CallsFor(q[1], q[2])) = 1
              /\ \A k \in CallsFor(q[1], q[2]) :
                    dist_matrix[At(q[1], q[2])] = calls[k][3]

\* three samples, the loop finished, and two pairs with different distances
C1_Witness ==
    /\ LoopDone
    /\ n_samples = 3
    /\ dist_matrix[At(0, 1)] # dist_matrix[At(0, 2)]
    /\ dist_matrix[At(2, 1)].kind = "ratio"

\* the taxa with a positive value in column s on some line of the table
PresentIn(s) ==
    {taxa_order[k] : k \in {k \in 1..Len(taxa_order) :
                        InTable(pm, k, s) /\ pm[k][s + 1] > 0}}

\* no taxon has a positive value in both columns
Disjoint == PresentIn(mi) \cap PresentIn(mj) = {}

\* the two columns agree on every line
Identical ==
    \A k \in 1..Len(pm) :
        /\ InTable(pm, k, mi)
        /\ InTable(pm, k, mj)
        /\ pm[k][mi + 1] = pm[k][mj + 1]

\* the call has returned Ok(1.0 - sum_shared / l_total)
Returned == pc = "done"

\* C2: disjoint present-taxa sets and total > 0 give shared = 0 (distance 1),
\* also when both samples sit inside one clade below a branch of positive
\* length.
C2_DisjointSharedZero ==
    (Returned /\ Disjoint /\ l_total # Zero) => sum_shared = Zero

\* C3: identical presence columns and total > 0 give shared = total, distance 0.
C3_IdenticalSharedIsTotal ==
    (Returned /\ Identical /\ l_total # Zero) => sum_shared = l_total

\* C4: whenever total > 0 the returned value lies in [0, 1]: 0 <= shared <= total.
C4_DistanceInUnitInterval ==
    (Returned /\ l_total # Zero) =>
        (F64Leq(Zero, sum_shared) /\ F64Leq(sum_shared, l_total))

\* C5: a pruned subtree of total branch length 0 never yields an ordinary return
\* value: the call returns only with total > 0.
C5_ZeroTotalIsAnError ==
    Returned => l_total # Zero

\* C6: a failed pair stops the run: it is the last call made, nothing is handed
\* to write_matrix afterwards, and write_matrix is called only after every pair
\* i < j was computed successfully.
C6_FailureStopsRun ==
    /\ \A k \in 1..Len(calls) :
          calls[k][3].kind = "panic" =>
              (k = Len(calls) /\ pc = "failed" /\ written = Idle)
    /\ written # Idle =>
          \A q \in Pairs : \E k \in CallsFor(q[1], q[2]) : calls[k][3].kind # "panic"

\* the second of three pairs failed: the run stopped there, nothing was written
C6_Witness ==
    /\ pc = "failed"
    /\ n_samples = 3
    /\ Len(calls) = 2
    /\ calls[1][3].kind = "ratio"
    /\ calls[2][3].kind = "panic"
    /\ written = Idle

\* construct_b has returned
Built == pc \in {"vecs", "reduce", "done"}

\* C7: B[i][j] = 1 if node i is leaf j or an ancestor of leaf j, and 0 otherwise;
\* no entry exceeds 1.
C7_IndicatorMatrix ==
    Built =>
        LET leaves == get_leaves(sub_tree)
        IN  \A x \in DOMAIN mat_b : \A o \in DOMAIN mat_b[x] :
                mat_b[x][o] =
                    IF x \in Live(sub_tree) /\ IsAncestorOrSelf(sub_tree, x, leaves[o + 1])
                    THEN 1 ELSE 0

\* B built for a tree with an inner clade of at least two tips beside other tips
C7_Witness ==
    /\ Built
    /\ n_leaves(sub_tree) >= 3
    /\ \E x \in Live(sub_tree) :
          /\ x # get_root(sub_tree)
          /\ Len(sub_tree.children[x]) >= 2
          /\ \A o \in 0..1 : mat_b[x][leaf_order[sub_tree.children[x][o + 1]]] = 1

\* both reductions of the bench have run
BothSums == seq_sum # Idle /\ par_sum # Idle

\* the exact (unrounded) sum of a sequence
RECURSIVE ExactSum(_)
ExactSum(d) ==
    IF d = <<>> THEN Zero
    ELSE LET r == ExactSum(Tail(d))
         IN  Norm(<<Head(d)[1] + r[1], Head(d)[2] + r[2]>>)

\* C8 as stated: the parallel and the sequential reduction return the same value
\* however the range is split.
C8_ParallelEqualsSequential ==
    BothSums => par_sum = seq_sum

\* C8 amended: the two reductions return the same value, the exact sum, whenever
\* the exact sum of the (non-negative, whole) products is below 2^53, so that no
\* partial sum is rounded.
C8_EqualWhenExact ==
    (BothSums /\ F64Less(ExactSum(Products(p_a, p_b, brlens)), Big)) =>
        (par_sum = seq_sum /\ seq_sum = ExactSum(Products(p_a, p_b, brlens)))

\* three or more terms, at least two of them non-zero, summed exactly
C8_Witness ==
    /\ BothSums
    /\ Len(brlens) >= 3
    /\ F64Less(One, par_sum)
    /\ F64Less(par_sum, Big)

\* the pruning loop of compute.rs 29-35 has ended
Pruned == (pc = "prune" /\ todo = <<>>) \/ pc \in {"build", "vecs", "reduce", "done"}

\* C9: with at least two present taxa, after the pruning loop the leaves of the
\* pruned tree are exactly the original tips whose names are present: no
\* internal node whose clade was removed stays behind as a leaf.
C9_LeavesArePresentTips ==
    (Pruned /\ Cardinality(present) >= 2) =>
        Range(get_leaves(sub_tree)) =
            {x \in Ids(tree) : is_tip(tree, x) /\ tree.name[x][1] \in present}

\* C10: after pruning, every surviving node id is below sub_tree.size(), so
\* leaf_order, brlens and the rows of B can be indexed by it.
C10_IdsBelowSize ==
    Pruned => \A x \in Live(sub_tree) : x < size(sub_tree)

====
